---- MODULE Spec2Model ----
(***************************************************************************)
(* RecipeParser: the URLToCookbook / HTMLToCookbook orchestrator of        *)
(* web_to_cookbook.py with the folder naming of parsers.py.                *)
(*                                                                         *)
(* Strings that the code inspects character by character (recipe names,    *)
(* folder names, path components) are sequences of one-character strings.  *)
(* A path is the sequence of its components, relative to the working       *)
(* directory.  Opaque strings (URLs, HTML documents, file contents) are    *)
(* plain strings.  An Optional value is None (<<>>) or Some(x) (<<x>>).    *)
(***************************************************************************)
EXTENDS Integers, Sequences, FiniteSets, Bags, TLC

\* ------------------------------------------------------------------ bounds
MaxUrlList == 2     \* longest url_list handed to the constructor
MaxPrior == 2       \* most recipe folders left by an earlier run
MaxPasses == 2      \* most passes (over URLs or over HTMLs) made by one object
MaxRetries == 2     \* largest retries argument
MaxFilled == 2      \* most optional fields of a recipe that are not left empty
MaxNameLen == 3     \* longest recipe name handed to folder_name directly
MaxYield == 11      \* largest N of a yield text "N servings"
MaxAddrs == 2       \* most IPv4 addresses of one network interface

\* ------------------------------------------------------------------ inputs
Urls == {"u1", "u2"}          \* recipe URLs of the batch
OldUrl == "u0"                \* a URL recorded by an earlier run only
Junk == "txt"                 \* a word of the file that is not a URL
Htmls == {"h1"}               \* raw HTML documents of the batch

\* recipe titles the scraper may report
Titles == { <<>>, <<"A", " ", "b">> }

None == <<>>
Some(x) == <<x>>
The(o) == o[1]

\* ------------------------------------------------------------ parsers.py
LowerCase ==
  <<"a", "b", "c", "d", "e", "f", "g", "h", "i", "j", "k", "l", "m",
    "n", "o", "p", "q", "r", "s", "t", "u", "v", "w", "x", "y", "z">>
UpperCase ==
  <<"A", "B", "C", "D", "E", "F", "G", "H", "I", "J", "K", "L", "M",
    "N", "O", "P", "Q", "R", "S", "T", "U", "V", "W", "X", "Y", "Z">>

\* str.lower
lower(s) ==
  [i \in 1..Len(s) |->
     IF \E k \in 1..26 : UpperCase[k] = s[i]
     THEN LowerCase[CHOOSE k \in 1..26 : UpperCase[k] = s[i]]
     ELSE s[i]]

replace(s, old, new) == [i \in 1..Len(s) |-> IF s[i] = old THEN new ELSE s[i]]

\* folder_name without the replacement of "/"
folder_name_keep_slash(name) == replace(lower(name), " ", "_")

\* RecipeForCookBook.folder_name
folder_name(name) == replace(replace(lower(name), " ", "_"), "/", "-")

\* Python values of the record's fields, tagged with their type.  Field values
\* are opaque to to_json, so strings are plain strings here.
StrV(x) == [t |-> "str", v |-> x]
IntV(i) == [t |-> "int", v |-> i]
ListV(l) == [t |-> "list", v |-> l]
DictV(d) == [t |-> "dict", v |-> d]
TextV(cs) == [t |-> "text", v |-> cs]   \* a str the code looks into: its characters
NoneV == [t |-> "none"]

\* bool(v), as `not v` takes it
truthy(x) ==
  CASE x.t = "str" -> x.v # ""
    [] x.t = "int" -> x.v # 0
    [] x.t = "list" -> Len(x.v) # 0
    [] x.t = "dict" -> DOMAIN x.v # {}
    [] x.t = "text" -> Len(x.v) # 0
    [] x.t = "none" -> FALSE

\* lines 36-51: the fields of RecipeForCookBook, in order
Fields ==
  <<"name", "recipeYield", "author", "description", "url", "image", "prepTime",
    "cookTime", "totalTime", "recipeCategory", "keywords", "tool",
    "recipeIngredient", "recipeInstructions", "nutrition", "datePublished">>
FieldNames == {Fields[i] : i \in 1..Len(Fields)}
Required == {"name", "recipeYield"}

\* the default of a field that has one
Default(f) ==
  CASE f \in {"keywords", "tool", "recipeIngredient", "recipeInstructions"} ->
         ListV(<<>>)
    [] f = "nutrition" -> DictV(<<>>)
    [] OTHER -> StrV("")

\* line 9
SCHEMA == ("@context" :> StrV("https://schema.org")) @@ ("@type" :> StrV("Recipe"))

\* dict.update
update(d, e) ==
  [k \in DOMAIN d \cup DOMAIN e |-> IF k \in DOMAIN e THEN e[k] ELSE d[k]]

\* to_json without the removal of the empty elements
to_json_keep_empty(self) == update(self, SCHEMA)

\* RecipeForCookBook.to_json; asdict copies the fields, values and all
to_json(self) ==
  LET as_dict == self
      empty_elements == {k \in DOMAIN as_dict : ~truthy(as_dict[k])}
      popped == [k \in DOMAIN as_dict \ empty_elements |-> as_dict[k]]
  IN update(popped, SCHEMA)

\* ---------------------------------------------------------------- pathlib
Digit(d) == <<"0", "1", "2", "3", "4", "5", "6", "7", "8", "9">>[d + 1]

RECURSIVE Str(_)
Str(i) == IF i < 10 THEN <<Digit(i)>> ELSE Str(i \div 10) \o <<Digit(i % 10)>>

\* Path / name: joining an empty string gives the same path
JoinPath(p, name) == IF name = <<>> THEN p ELSE Append(p, name)

\* Path.with_name: the last component replaced
with_name(p, name) == Append(SubSeq(p, 1, Len(p) - 1), name)

IsPrefix(p, q) == Len(p) <= Len(q) /\ SubSeq(q, 1, Len(p)) = p

\* shutil.rmtree: the directory and everything below it
rmtree(dirs, p) == [d \in {q \in DOMAIN dirs : ~IsPrefix(p, q)} |-> dirs[d]]

\* ------------------------------------------------------------ urllib.parse
\* the first position from `from` on that holds one of `chars`, or Len(s) + 1
IndexOf(s, chars, from) ==
  IF \E i \in from..Len(s) : s[i] \in chars
  THEN CHOOSE i \in from..Len(s) :
         s[i] \in chars /\ \A j \in from..(i - 1) : s[j] \notin chars
  ELSE Len(s) + 1

\* the last position that holds c, or 0
LastIndexOf(s, c) ==
  IF \E i \in 1..Len(s) : s[i] = c
  THEN CHOOSE i \in 1..Len(s) : s[i] = c /\ \A j \in (i + 1)..Len(s) : s[j] # c
  ELSE 0

Letters == {LowerCase[k] : k \in 1..26} \cup {UpperCase[k] : k \in 1..26}
SchemeChars == Letters \cup {Digit(d) : d \in 0..9} \cup {"+", "-", "."}

\* urlsplit(url).netloc: what stands between the "//" that follows the scheme
\* and the next "/", "?" or "#"
netloc(url) ==
  LET colon == IndexOf(url, {":"}, 1)
      has_scheme == /\ 1 < colon
                    /\ colon <= Len(url)
                    /\ url[1] \in Letters
                    /\ \A i \in 1..(colon - 1) : url[i] \in SchemeChars
      rest == IF has_scheme THEN SubSeq(url, colon + 1, Len(url)) ELSE url
  IN IF Len(rest) >= 2 /\ rest[1] = "/" /\ rest[2] = "/"
     THEN SubSeq(rest, 3, IndexOf(rest, {"/", "?", "#"}, 3) - 1)
     ELSE <<>>

\* urlparse(url).hostname: the netloc without userinfo and port, lower-cased;
\* None when it is empty
hostname(url) ==
  LET loc == netloc(url)
      hostinfo == SubSeq(loc, LastIndexOf(loc, "@") + 1, Len(loc))
      host == SubSeq(hostinfo, 1, IndexOf(hostinfo, {":"}, 1) - 1)
  IN IF host = <<>> THEN None ELSE Some(lower(host))

WwwAhNl == <<"w", "w", "w", ".", "a", "h", ".", "n", "l">>

\* lines 193-195
HOST_PARSER_MAPPING == (WwwAhNl :> "AlbertHeijnRecipeParser")

\* get_proper_parser with the host looked for inside the keys
get_proper_parser_fuzzy(url) ==
  LET host == hostname(url)
  IN IF host # None /\ \E k \in DOMAIN HOST_PARSER_MAPPING :
                        \E i \in 1..Len(k) : SubSeq(k, i, Len(k)) = The(host)
     THEN "AlbertHeijnRecipeParser"
     ELSE "DefaultRecipeParser"

\* get_proper_parser
get_proper_parser(url) ==
  LET host == hostname(url)
  IN IF host = None \/ The(host) \notin DOMAIN HOST_PARSER_MAPPING
     THEN "DefaultRecipeParser"
     ELSE HOST_PARSER_MAPPING[The(host)]

\* ------------------------------------------------- parsers.py: the parsers
\* str.strip(chars): leading and trailing characters of `chars` removed
strip(s, chars) ==
  IF \A i \in 1..Len(s) : s[i] \in chars THEN <<>>
  ELSE LET first == CHOOSE i \in 1..Len(s) :
                      s[i] \notin chars /\ \A j \in 1..(i - 1) : s[j] \in chars
           last_ == CHOOSE i \in 1..Len(s) :
                      s[i] \notin chars /\ \A j \in (i + 1)..Len(s) : s[j] \in chars
       IN SubSeq(s, first, last_)

IsDigit(c) == \E d \in 0..9 : Digit(d) = c
DigitValue(c) == CHOOSE d \in 0..9 : Digit(d) = c

RECURSIVE decimal(_)
decimal(s) ==
  IF s = <<>> THEN 0
  ELSE 10 * decimal(SubSeq(s, 1, Len(s) - 1)) + DigitValue(s[Len(s)])

\* int(s) for a str: None stands for ValueError
int(s) ==
  IF s # <<>> /\ \A i \in 1..Len(s) : IsDigit(s[i]) THEN Some(decimal(s)) ELSE None

\* lines 132-149: the RecipeForCookBook built from the scraper
cookbook_recipe_of(recipe) ==
  [f \in FieldNames |->
     CASE f = "name" -> recipe.title
       [] f = "author" -> recipe.author
       [] f = "recipeYield" -> recipe.yields
       [] f = "description" -> recipe.description
       [] f = "url" -> recipe.url
       [] f = "image" -> recipe.image
       [] f = "totalTime" -> recipe.totalTime
       [] f = "prepTime" -> recipe.prepTime
       [] f = "cookTime" -> recipe.cookTime
       [] f = "recipeCategory" -> recipe.category
       [] f = "keywords" -> ListV(recipe.keywords \o recipe.dietary_restrictions)
       [] f = "tool" -> ListV(<<>>)
       [] f = "recipeIngredient" -> recipe.ingredients
       [] f = "recipeInstructions" -> recipe.recipeInstructions
       [] f = "nutrition" -> recipe.nutrients
       [] f = "datePublished" -> recipe.datePublished]

\* parse_recipe without lines 150-151
default_parse_recipe_no_cuisine(recipe) == cookbook_recipe_of(recipe)

\* DefaultRecipeParser.parse_recipe
default_parse_recipe(recipe) ==
  LET cookbook_recipe == cookbook_recipe_of(recipe)
  IN IF truthy(recipe.cuisine)
     THEN [cookbook_recipe EXCEPT
             !["keywords"] = ListV(Append(@.v, recipe.cuisine))]
     ELSE cookbook_recipe

Servings == <<" ", "s", "e", "r", "v", "i", "n", "g", "s">>
SetOf(s) == {s[i] : i \in 1..Len(s)}

\* the yield conversion reading only the first character
yield_first_digit(text) == IF text = <<>> THEN None ELSE int(<<text[1]>>)

\* line 189: int(self.recipe.yields().strip(" servings"))
yield_to_int(text) == int(strip(text, SetOf(Servings)))

\* AlbertHeijnRecipeParser.parse_recipe: the recipe, or None for the ValueError
\* of line 189
ah_parse_recipe(recipe) ==
  LET cookbook_recipe == default_parse_recipe(recipe)
      named(a) == truthy(a)
      tool == ListV(SelectSeq(recipe.appliances, named))
      n == yield_to_int(recipe.yields.v)
  IN IF n = None THEN None
     ELSE Some([cookbook_recipe EXCEPT !["tool"] = tool,
                                       !["recipeYield"] = IntV(The(n))])

\* parse_recipe(recipe): the parser of the recipe's host applied
parse_recipe(recipe) ==
  IF get_proper_parser(recipe.url.v) = "AlbertHeijnRecipeParser"
  THEN ah_parse_recipe(recipe)
  ELSE Some(default_parse_recipe(recipe))

\* ------------------------------------------------------ web_to_cookbook.py
Raise(e) == [raised |-> TRUE, error |-> e]
Return(x) == [raised |-> FALSE, value |-> x]

\* get_source_ip returning the last IPv4 address
get_source_ip_last(interface, system) ==
  IF interface = "" THEN Return("127.0.0.1")
  ELSE IF interface \notin DOMAIN system THEN Raise("ValueError")
  ELSE LET addresses == system[interface]
       IN IF "AF_INET" \notin DOMAIN addresses THEN Raise("ValueError")
          ELSE Return(addresses["AF_INET"][Len(addresses["AF_INET"])].addr)

\* get_source_ip; system: netifaces.interfaces() as the domain, and
\* netifaces.ifaddresses(i) as system[i]
get_source_ip(interface, system) ==
  IF interface = "" THEN Return("127.0.0.1")
  ELSE IF interface \notin DOMAIN system THEN Raise("ValueError")
  ELSE LET addresses == system[interface]
       IN IF "AF_INET" \notin DOMAIN addresses THEN Raise("ValueError")
          ELSE Return(addresses["AF_INET"][1].addr)

TargetName == <<"t">>
target == <<TargetName>>        \* self.target_folder
NoFile == "-"
EmptyDir == [json |-> NoFile, jpg |-> NoFile]

Source == {"html", "url"}
Item(src, content) == [source |-> src, source_content |-> content]
RecipeContainer(src, content) ==
  [source |-> src, source_content |-> content, success |-> FALSE,
   parsed_recipe |-> None, target_folder |-> None]

VARIABLES
  fs,               \* directories: path -> contents of recipe.json and full.jpg
  failed_file,      \* <target>/failed_urls.txt: None, or Some(bag of its words)
  source_recipes,   \* self._source_recipes: item -> RecipeContainer
  pc,               \* "new", "init_failed", "idle", "urls", "retry", "htmls"
  in_retry,         \* run_through_urls was called by run_through_urls_with_retry
  retries,          \* the retries argument
  attempt,          \* passes started by the current run_through_urls_with_retry
  pending,          \* items of the loop's list not yet visited
  exceptions,       \* the loop's exceptions list: the items that raised
  result,           \* how the last operation ended
  passes,           \* passes started so far
  last,             \* the step just taken on one item (None after other steps)
  hist,             \* the current pass: items at its start, attempts, failures
  tries,            \* attempts per item in the current operation
  call              \* a call of a function of parsers.py or of get_source_ip:
                    \* its name, its arguments and, once it returned, its outcome

vars == <<fs, failed_file, source_recipes, pc, in_retry, retries, attempt,
          pending, exceptions, result, passes, last, hist, tries, call>>

Items == DOMAIN source_recipes
UrlItems == {c \in Items : c.source = "url"}
HtmlItems == {c \in Items : c.source = "html"}

success_recipes(recs) == {c \in DOMAIN recs : recs[c].success}
\* not_success_recipes without the filter
not_success_recipes_all(recs) == DOMAIN recs

\* HTMLToCookbook.not_success_recipes
not_success_recipes(recs) == {c \in DOMAIN recs : ~recs[c].success}

exists(dirs, p) == p \in DOMAIN dirs

\* lines 220-226: the first free name among folder_name, folder_name_2, ...
RECURSIVE next_free(_, _, _, _)
next_free(dirs, cur, fname, i) ==
  IF ~exists(dirs, cur) THEN cur
  ELSE next_free(dirs, with_name(cur, fname \o <<"_">> \o Str(i + 1)), fname, i + 1)

\* _create_target_folder without the probing: the folder is taken as it is
create_target_folder_reuse(dirs, fname) ==
  [path |-> JoinPath(target, fname), exist_ok |-> TRUE]

\* _create_target_folder: the path it settles on, handed to mkdir(exist_ok=False)
create_target_folder(dirs, fname) ==
  [path |-> next_free(dirs, JoinPath(target, fname), fname, 1), exist_ok |-> FALSE]

\* Path.mkdir: an existing directory keeps its files
mkdir(dirs, p) == IF exists(dirs, p) THEN dirs ELSE (p :> EmptyDir) @@ dirs

\* Outcomes of processing one item: the step that raises, or "ok"
UrlStages == {"fetch", "parse", "mkdir", "json", "image", "ok"}
HtmlStages == {"scrape", "parse", "mkdir", "json", "image", "ok"}

\* _save_scraped_recipe (with _create_target_folder, _save_to_json and
\* _get_and_save_image) on container rc whose scraper reports `title`.
\* A file's content is the source whose recipe was written to it; a write of
\* recipe.json that raises leaves the file it opened.
\* created: the folder this call made, if any.
save_scraped_recipe(dirs, rc, stage, title) ==
  IF stage = "parse"
  THEN [rc |-> rc, fs |-> dirs, raised |-> TRUE, created |-> None]
  ELSE
    LET parsed == [rc EXCEPT !.parsed_recipe = Some(title)]
        ctf == create_target_folder(dirs, folder_name(title))
        chosen == [parsed EXCEPT !.target_folder = Some(ctf.path)]
        made == mkdir(dirs, ctf.path)
        body == rc.source_content
    IN IF stage = "mkdir" \/ (exists(dirs, ctf.path) /\ ~ctf.exist_ok)
       THEN [rc |-> chosen, fs |-> dirs, raised |-> TRUE, created |-> None]
       ELSE
         LET new == IF exists(dirs, ctf.path) THEN None ELSE Some(ctf.path)
         IN CASE stage \in {"json", "image"} ->
                  [rc |-> chosen, raised |-> TRUE, created |-> new,
                   fs |-> [made EXCEPT ![ctf.path].json = body]]
              [] OTHER ->
                  [rc |-> chosen, raised |-> FALSE, created |-> new,
                   fs |-> [made EXCEPT ![ctf.path].json = body,
                                       ![ctf.path].jpg = body]]

\* the except branch of web_to_cookbook without the rmtree
rollback_nothing(dirs, tf) == dirs

\* lines 270-271: the except branch of web_to_cookbook
rollback(dirs, tf) ==
  IF tf # None /\ exists(dirs, The(tf)) THEN rmtree(dirs, The(tf)) ELSE dirs

\* web_to_cookbook with the flag set before the work is done
web_to_cookbook_flag_first(dirs, rc, stage, title) ==
  IF stage = "fetch"
  THEN [rc |-> [rc EXCEPT !.success = TRUE],
        fs |-> rollback(dirs, rc.target_folder), raised |-> TRUE,
        created |-> None]
  ELSE
    LET r == save_scraped_recipe(dirs, rc, stage, title)
    IN IF r.raised
       THEN [r EXCEPT !.fs = rollback(r.fs, r.rc.target_folder),
                      !.rc.success = TRUE]
       ELSE [r EXCEPT !.rc.success = TRUE]

\* URLToCookbook.web_to_cookbook
web_to_cookbook(dirs, rc, stage, title) ==
  IF stage = "fetch"
  THEN [rc |-> rc, fs |-> rollback(dirs, rc.target_folder), raised |-> TRUE,
        created |-> None]
  ELSE
    LET r == save_scraped_recipe(dirs, rc, stage, title)
    IN IF r.raised
       THEN [r EXCEPT !.fs = rollback(r.fs, r.rc.target_folder)]
       ELSE [r EXCEPT !.rc.success = TRUE]

\* HTMLToCookbook.html_to_cookbook
html_to_cookbook(dirs, rc, stage, title) ==
  IF stage = "scrape"
  THEN [rc |-> rc, fs |-> dirs, raised |-> TRUE, created |-> None]
  ELSE save_scraped_recipe(dirs, rc, stage, title)

\* URLExtract.find_urls: the words of the text that are URLs
find_urls(text) == [t \in {w \in BagToSet(text) : w # Junk} |-> text[t]]

\* the update leaving a file that is already there as it is
update_failed_urls_file_once(file, recs) ==
  IF file # None THEN The(file)
  ELSE SetToBag({c.source_content :
                   c \in {d \in not_success_recipes(recs) : d.source = "url"}})

\* the update writing the failures after the text already there
update_failed_urls_file_append(file, recs) ==
  LET before == IF file = None THEN EmptyBag ELSE The(file)
  IN before (+) SetToBag({c.source_content :
                            c \in {d \in not_success_recipes(recs) : d.source = "url"}})

\* the update without line 336: successes stay listed
update_failed_urls_file_keep(file, recs) ==
  LET read == IF file = None THEN {} ELSE BagToSet(find_urls(The(file)))
      failed == {c.source_content :
                   c \in {d \in not_success_recipes(recs) : d.source = "url"}}
  IN SetToBag(read \cup failed)

\* URLToCookbook._update_failed_urls_file: the new text of the file
update_failed_urls_file(file, recs) ==
  LET read == IF file = None THEN {} ELSE BagToSet(find_urls(The(file)))
      succeeded == {c.source_content :
                      c \in {d \in success_recipes(recs) : d.source = "url"}}
      failed == {c.source_content :
                   c \in {d \in not_success_recipes(recs) : d.source = "url"}}
  IN SetToBag((read \ succeeded) \cup failed)


\* --------------------------------------------------------- initial states
NoCall == [fn |-> "none"]

PriorTitle == <<"A", " ", "b">>

\* the k-th folder an earlier run made for PriorTitle: a_b, a_b_2, a_b_3, ...
PriorFolder(k) ==
  Append(target, IF k = 1 THEN folder_name(PriorTitle)
                 ELSE folder_name(PriorTitle) \o <<"_">> \o Str(k))

Saved(body) == [json |-> body, jpg |-> body]

\* the target folder with the first k folders of an earlier run
PriorRun(k) ==
  [d \in {target} \cup {PriorFolder(j) : j \in 1..k} |->
     IF d = target THEN EmptyDir ELSE Saved("old")]

\* texts of a failed_urls.txt found at the start: a URL of the batch, a URL of
\* an earlier batch and a word that is no URL; a URL of the batch listed twice
Texts == { ("u1" :> 1) @@ (OldUrl :> 1) @@ (Junk :> 1), ("u1" :> 2) }

Lists(S, n) == UNION {[1..k -> S] : k \in 0..n}

NoPass ==
  [kind |-> "none", start |-> {}, tried |-> <<>>, failed |-> {},
   outcome |-> "none", group |-> <<>>, before |-> None]

\* result: the operation that ended last, whether it raised, the exceptions of
\* the group it raised, the passes it made and its retries argument
NoResult ==
  [op |-> "none", raised |-> FALSE, group |-> <<>>, passes |-> 0, retries |-> 0]
Result(op, excs, made, n) ==
  [op |-> op, raised |-> excs # <<>>, group |-> excs, passes |-> made,
   retries |-> n]

Init ==
  /\ \/ /\ fs = <<>>
        /\ failed_file = None
     \/ /\ fs \in {PriorRun(k) : k \in 0..MaxPrior}
        /\ failed_file \in {None} \cup {Some(t) : t \in Texts}
  /\ source_recipes = <<>>
  /\ pc = "new"
  /\ in_retry = FALSE
  /\ retries = 0
  /\ attempt = 0
  /\ pending = {}
  /\ exceptions = <<>>
  /\ result = NoResult
  /\ passes = 0
  /\ last = None
  /\ hist = NoPass
  /\ tries = <<>>
  /\ call = NoCall

\* ------------------------------------------------------------ construction
\* the URL containers kept apart by their place in the list
url_items_by_place(url_list) ==
  {[source |-> "url", source_content |-> url_list[i], place |-> i] :
     i \in 1..Len(url_list)}

\* line 239: the set of the containers built from url_list; new containers are
\* equal when their URLs are
url_items(url_list) == {Item("url", url_list[i]) : i \in 1..Len(url_list)}

\* URLToCookbook.__init__ over HTMLToCookbook.__init__
Construction(url_list, html_list) ==
  /\ pc = "new"
  /\ LET htmls == {Item("html", html_list[i]) : i \in 1..Len(html_list)}
         urls == url_items(url_list)
         made == IF exists(fs, target) THEN fs ELSE mkdir(fs, target)
     IN /\ fs' = made
        /\ IF url_list = <<>>
           THEN /\ pc' = "init_failed"
                /\ source_recipes' =
                     [c \in htmls |-> RecipeContainer(c.source, c.source_content)]
           ELSE /\ pc' = "idle"
                /\ source_recipes' =
                     [c \in htmls \cup urls |->
                        RecipeContainer(c.source, c.source_content)]
  /\ tries' = [c \in DOMAIN source_recipes' |-> 0]
  /\ UNCHANGED <<failed_file, in_retry, retries, attempt, pending, exceptions,
                 result, passes, last, hist>>

Construct(url_list, html_list) ==
  /\ Construction(url_list, html_list)
  /\ UNCHANGED call

\* ------------------------------------------------------------ URL passes
\* the state of a pass of run_through_urls or run_through_htmls at its start
StartPass(kind, recs) ==
  [kind |-> kind,
   start |-> {c \in not_success_recipes(recs) :
                c.source = IF kind = "urls" THEN "url" ELSE "html"},
   tried |-> [c \in DOMAIN recs |-> 0], failed |-> {},
   outcome |-> "running", group |-> <<>>, before |-> None]

\* a caller calls run_through_urls()
CallRunThroughUrls ==
  /\ pc = "idle"
  /\ passes < MaxPasses
  /\ passes' = passes + 1
  /\ pc' = "urls"
  /\ in_retry' = FALSE
  /\ pending' = not_success_recipes(source_recipes)
  /\ exceptions' = <<>>
  /\ hist' = StartPass("urls", source_recipes)
  /\ tries' = [c \in Items |-> 0]
  /\ last' = None
  /\ result' = NoResult
  /\ UNCHANGED <<call, fs, failed_file, source_recipes, retries, attempt>>

\* the items left to visit after item c was visited, without the try/except
remaining_abort(todo, c, raised) == IF raised THEN {} ELSE todo \ {c}

\* lines 284-293: the loop goes on to the next item whatever happened to c
remaining(todo, c, raised) == todo \ {c}

\* line 291, without the append
collect_nothing(excs, c) == excs

\* line 291: exceptions.append(e)
collect(excs, c) == Append(excs, c)

\* one iteration of the loop of run_through_urls
UrlLoopStep ==
  /\ pc = "urls"
  /\ \E c \in pending :
       IF c.source # "url"
       THEN /\ pending' = pending \ {c}
            /\ last' = None
            /\ UNCHANGED <<fs, source_recipes, exceptions, hist, tries>>
       ELSE \E stage \in UrlStages, title \in Titles :
              LET r == web_to_cookbook(fs, source_recipes[c], stage, title)
              IN /\ fs' = r.fs
                 /\ source_recipes' = [source_recipes EXCEPT ![c] = r.rc]
                 /\ exceptions' = IF r.raised THEN collect(exceptions, c)
                                  ELSE exceptions
                 /\ pending' = remaining(pending, c, r.raised)
                 /\ last' = Some([item |-> c, raised |-> r.raised,
                                  created |-> r.created])
                 /\ hist' = [hist EXCEPT !.tried[c] = @ + 1,
                                         !.failed = IF r.raised THEN @ \cup {c}
                                                    ELSE @]
                 /\ tries' = [tries EXCEPT ![c] = @ + 1]
  /\ UNCHANGED <<call, failed_file, pc, in_retry, retries, attempt, result, passes>>

\* line 297 with the test negated away: the pass never raises
raises_never(excs) == FALSE

\* line 297: if exceptions
raises(excs) == excs # <<>>

\* lines 295-298: the end of run_through_urls
UrlLoopEnd ==
  /\ pc = "urls"
  /\ pending = {}
  /\ failed_file' = Some(update_failed_urls_file(failed_file, source_recipes))
  /\ hist' = [hist EXCEPT !.outcome = IF raises(exceptions) THEN "raised"
                                      ELSE "returned",
                          !.group = IF raises(exceptions) THEN exceptions ELSE <<>>,
                          !.before = Some(failed_file)]
  /\ last' = None
  /\ IF in_retry
     THEN /\ pc' = "retry"
          /\ UNCHANGED result
     ELSE /\ pc' = "idle"
          /\ result' = Result("urls", IF raises(exceptions) THEN exceptions
                                               ELSE <<>>, 1, 0)
  /\ UNCHANGED <<call, fs, source_recipes, in_retry, retries, attempt, pending,
                 exceptions, passes, tries>>

\* ---------------------------------------------------------------- retries
\* a caller calls run_through_urls_with_retry(retries=n)
CallRetry(n) ==
  /\ pc = "idle"
  /\ passes + n <= MaxPasses
  /\ tries' = [c \in Items |-> 0]
  /\ last' = None
  /\ passes' = IF n <= 0 THEN passes ELSE passes + 1
  /\ IF n <= 0
     THEN /\ pc' = "idle"
          /\ result' = Result("retry", <<>>, 0, n)
          /\ hist' = NoPass
          /\ UNCHANGED <<in_retry, retries, attempt, pending, exceptions>>
     ELSE /\ pc' = "urls"
          /\ in_retry' = TRUE
          /\ retries' = n
          /\ attempt' = 1
          /\ pending' = not_success_recipes(source_recipes)
          /\ exceptions' = <<>>
          /\ hist' = StartPass("urls", source_recipes)
          /\ result' = NoResult
  /\ UNCHANGED <<call, fs, failed_file, source_recipes>>

\* range(retries) with one pass too many
more_passes_off_by_one(done, n) == done <= n

\* line 306: range(retries) has another value after `done` passes
more_passes(done, n) == done < n

\* lines 310-318: after a pass of the retry loop
RetryCheck ==
  /\ pc = "retry"
  /\ last' = None
  /\ LET failed_urls == {c \in not_success_recipes(source_recipes) :
                           c.source = "url"}
     IN IF failed_urls # {} /\ more_passes(attempt, retries)
        THEN /\ pc' = "urls"
             /\ attempt' = attempt + 1
             /\ passes' = passes + 1
             /\ pending' = not_success_recipes(source_recipes)
             /\ exceptions' = <<>>
             /\ hist' = StartPass("urls", source_recipes)
             /\ UNCHANGED <<result, in_retry, retries>>
        ELSE /\ pc' = "idle"
             /\ in_retry' = FALSE
             /\ retries' = 0
             /\ attempt' = 0
             /\ result' = Result("retry", <<>>, attempt, retries)
             /\ UNCHANGED <<pending, exceptions, hist, passes>>
  /\ UNCHANGED <<call, fs, failed_file, source_recipes, tries>>

\* ------------------------------------------------------------- HTML pass
\* a caller calls run_through_htmls()
CallRunThroughHtmls ==
  /\ pc = "idle"
  /\ passes < MaxPasses
  /\ passes' = passes + 1
  /\ pc' = "htmls"
  /\ pending' = not_success_recipes(source_recipes)
  /\ exceptions' = <<>>
  /\ hist' = StartPass("htmls", source_recipes)
  /\ tries' = [c \in Items |-> 0]
  /\ last' = None
  /\ result' = NoResult
  /\ UNCHANGED <<call, fs, failed_file, source_recipes, in_retry, retries, attempt>>

\* one iteration of the loop of run_through_htmls
HtmlLoopStep ==
  /\ pc = "htmls"
  /\ \E c \in pending :
       IF c.source # "html"
       THEN /\ pending' = pending \ {c}
            /\ last' = None
            /\ UNCHANGED <<fs, source_recipes, exceptions, hist, tries>>
       ELSE \E stage \in HtmlStages, title \in Titles :
              LET r == html_to_cookbook(fs, source_recipes[c], stage, title)
              IN /\ fs' = r.fs
                 /\ source_recipes' =
                      [source_recipes EXCEPT
                         ![c] = IF r.raised THEN r.rc
                                ELSE [r.rc EXCEPT !.success = TRUE]]
                 /\ exceptions' = IF r.raised THEN Append(exceptions, c)
                                  ELSE exceptions
                 /\ pending' = pending \ {c}
                 /\ last' = Some([item |-> c, raised |-> r.raised,
                                  created |-> r.created])
                 /\ hist' = [hist EXCEPT !.tried[c] = @ + 1,
                                         !.failed = IF r.raised THEN @ \cup {c}
                                                    ELSE @]
                 /\ tries' = [tries EXCEPT ![c] = @ + 1]
  /\ UNCHANGED <<call, failed_file, pc, in_retry, retries, attempt, result, passes>>

\* the end of run_through_htmls, writing the failed-URL file as the URL pass does
HtmlLoopEnd_updating_file ==
  /\ pc = "htmls"
  /\ pending = {}
  /\ pc' = "idle"
  /\ failed_file' = Some(update_failed_urls_file(failed_file, source_recipes))
  /\ hist' = [hist EXCEPT !.outcome = IF exceptions # <<>> THEN "raised"
                                      ELSE "returned",
                          !.group = exceptions]
  /\ result' = Result("htmls", exceptions, 1, 0)
  /\ last' = None
  /\ UNCHANGED <<call, fs, source_recipes, in_retry, retries, attempt,
                 pending, exceptions, passes, tries>>

\* lines 214-215: the end of run_through_htmls
HtmlLoopEnd ==
  /\ pc = "htmls"
  /\ pending = {}
  /\ pc' = "idle"
  /\ hist' = [hist EXCEPT !.outcome = IF exceptions # <<>> THEN "raised"
                                      ELSE "returned",
                          !.group = exceptions]
  /\ result' = Result("htmls", exceptions, 1, 0)
  /\ last' = None
  /\ UNCHANGED <<call, fs, failed_file, source_recipes, in_retry, retries, attempt,
                 pending, exceptions, passes, tries>>

Next ==
  \/ \E url_list \in Lists(Urls, MaxUrlList), html_list \in Lists(Htmls, 1) :
       Construct(url_list, html_list)
  \/ CallRunThroughUrls
  \/ UrlLoopStep
  \/ UrlLoopEnd
  \/ \E n \in 0..MaxRetries : CallRetry(n)
  \/ RetryCheck
  \/ CallRunThroughHtmls
  \/ HtmlLoopStep
  \/ HtmlLoopEnd

Spec == Init /\ [][Next]_vars

\* ------------------------------------------- the functions, called directly
\* values a field may hold besides its default
Filled(f) ==
  CASE f \in {"keywords", "tool", "recipeIngredient"} -> ListV(<<StrV("a")>>)
    [] f = "recipeInstructions" -> ListV(<<DictV([step |-> "s"])>>)
    [] f = "nutrition" -> DictV([calories |-> "200 kcal"])
    [] OTHER -> StrV("x")

Names == {StrV(""), StrV("n")}
Yields == {IntV(0), IntV(4), StrV("4 servings")}

\* RecipeForCookBook(...): name and recipeYield given, the fields of `filled`
\* set, the others left at their defaults
RecipeForCookBook(name, recipeYield, filled) ==
  [f \in FieldNames |->
     CASE f = "name" -> name
       [] f = "recipeYield" -> recipeYield
       [] f \in filled -> Filled(f)
       [] OTHER -> Default(f)]

Recipes ==
  {RecipeForCookBook(n, y, S) :
     n \in Names, y \in Yields,
     S \in {T \in SUBSET (FieldNames \ Required) : Cardinality(T) <= MaxFilled}}

Call(fn, args) == [fn |-> fn, args |-> args, out |-> None]

\* no orchestrator is built: the state of the file system plays no part
NoOrchestrator ==
  /\ fs = <<>>
  /\ failed_file = None
  /\ source_recipes = <<>>
  /\ pc = "new"
  /\ in_retry = FALSE
  /\ retries = 0
  /\ attempt = 0
  /\ pending = {}
  /\ exceptions = <<>>
  /\ result = NoResult
  /\ passes = 0
  /\ last = None
  /\ hist = NoPass
  /\ tries = <<>>

orchestrator ==
  <<fs, failed_file, source_recipes, pc, in_retry, retries, attempt, pending,
    exceptions, result, passes, last, hist, tries>>

\* URLs written from their parts: scheme, "//", userinfo, host, port, path
Https == <<"h", "t", "t", "p", "s">>
Hosts ==
  { WwwAhNl,
    <<"a", "h", ".", "n", "l">>,
    <<"W", "w", "w", ".", "A", "H", ".", "n", "l">>,
    WwwAhNl \o <<".", "x">>,
    <<"x", ".">> \o WwwAhNl,
    <<"x">> \o WwwAhNl,
    <<>> }
UrlParts ==
  [scheme : {None, Some(Https)}, slashes : BOOLEAN,
   userinfo : {None, Some(<<"u">>)}, host : Hosts,
   port : {None, Some(<<"4", "4", "3">>)}, path : {<<>>, <<"/", "r">>}]
UrlOf(p) ==
  (IF p.scheme = None THEN <<>> ELSE The(p.scheme) \o <<":">>)
  \o (IF p.slashes THEN <<"/", "/">> ELSE <<>>)
  \o (IF p.userinfo = None THEN <<>> ELSE The(p.userinfo) \o <<"@">>)
  \o p.host
  \o (IF p.port = None THEN <<>> ELSE <<":">> \o The(p.port))
  \o p.path

\* recipe names over letters of both cases and the characters folder_name
\* treats specially or produces
NameChars == {"A", "a", "B", " ", "_", "/", "-"}
RecipeNames == UNION {[1..k -> NameChars] : k \in 0..MaxNameLen}

\* yield texts of a scraper: "N servings", and two texts of another shape
YieldTexts ==
  {Str(n) \o Servings : n \in 0..MaxYield}
    \cup {<<"4", " ", "p", "o", "r", "t", "i", "o", "n", "s">>, <<>>}

\* an AbstractScraper as the parsers read it
Scraper(url, yields, keywords, dietary, cuisine, appliances) ==
  [title |-> StrV("T"), author |-> StrV("x"), yields |-> TextV(yields),
   description |-> StrV("x"), url |-> TextV(url), image |-> StrV("x"),
   totalTime |-> StrV(""), prepTime |-> StrV(""), cookTime |-> StrV(""),
   category |-> StrV("x"), keywords |-> keywords,
   dietary_restrictions |-> dietary, ingredients |-> ListV(<<StrV("a")>>),
   recipeInstructions |-> ListV(<<>>), nutrients |-> DictV(<<>>),
   datePublished |-> StrV(""), cuisine |-> cuisine, appliances |-> appliances]

Scrapers ==
  {Scraper(Https \o <<":", "/", "/">> \o h \o <<"/", "r">>, y, k, d, c, a) :
     h \in {WwwAhNl, <<"a", "h", ".", "n", "l">>},
     y \in YieldTexts,
     k \in {<<>>, <<StrV("k1")>>, <<StrV("k1"), StrV("k2")>>},
     d \in {<<>>, <<StrV("d1")>>},
     c \in {StrV(""), StrV("c")},
     a \in {<<>>, <<StrV("oven"), NoneV>>}}

\* netifaces: the addresses one interface may have, by family
Inet4 ==
  {[i \in 1..Len(a) |-> [addr |-> a[i]]] :
     a \in UNION {[1..n -> {"10.0.0.1", "10.0.0.2"}] : n \in 1..MaxAddrs}}
IfAddresses ==
  {("AF_LINK" :> <<[addr |-> "mac"]>>)}
    \cup {("AF_INET6" :> <<[addr |-> "fe80::1"]>>)}
    \cup {("AF_INET" :> v) : v \in Inet4}
    \cup {("AF_INET" :> v) @@ ("AF_INET6" :> <<[addr |-> "fe80::1"]>>) : v \in Inet4}
Systems ==
  UNION {[S -> IfAddresses] : S \in SUBSET {"eth0", "lo"}}
Interfaces == {"", "eth0", "lo", "wlan0"}

FunInit ==
  /\ NoOrchestrator
  /\ call \in {Call("to_json", r) : r \in Recipes}
            \cup {Call("get_proper_parser", [parts |-> p, url |-> UrlOf(p)]) :
                    p \in UrlParts}
            \cup {Call("folder_name", [name |-> n]) : n \in RecipeNames}
            \cup {Call("parse_recipe", [recipe |-> r]) : r \in Scrapers}
            \cup {Call("get_source_ip", [interface |-> i, system |-> sys]) :
                    i \in Interfaces, sys \in Systems}

ToJson ==
  /\ call.fn = "to_json"
  /\ call.out = None
  /\ call' = [call EXCEPT !.out = Some(to_json(call.args))]
  /\ UNCHANGED orchestrator

GetProperParser ==
  /\ call.fn = "get_proper_parser"
  /\ call.out = None
  /\ call' = [call EXCEPT !.out = Some(get_proper_parser(call.args.url))]
  /\ UNCHANGED orchestrator

FolderName ==
  /\ call.fn = "folder_name"
  /\ call.out = None
  /\ call' = [call EXCEPT !.out = Some(folder_name(call.args.name))]
  /\ UNCHANGED orchestrator

ParseRecipe ==
  /\ call.fn = "parse_recipe"
  /\ call.out = None
  /\ call' = [call EXCEPT !.out = Some(parse_recipe(call.args.recipe))]
  /\ UNCHANGED orchestrator

GetSourceIp ==
  /\ call.fn = "get_source_ip"
  /\ call.out = None
  /\ call' = [call EXCEPT
                !.out = Some(get_source_ip(call.args.interface, call.args.system))]
  /\ UNCHANGED orchestrator

FunNext ==
  \/ ToJson
  \/ GetProperParser
  \/ FolderName
  \/ ParseRecipe
  \/ GetSourceIp

FunSpec == FunInit /\ [][FunNext]_vars

\* ------------------------------------ the run, with the lists it was given
\* the constructor, its arguments kept in `call`
ConstructFrom(url_list, html_list) ==
  /\ Construction(url_list, html_list)
  /\ call' = Call("URLToCookbook", [url_list |-> url_list, html_list |-> html_list])

\* a batch of URLs alone
ListNext ==
  \/ \E url_list \in Lists(Urls, MaxUrlList) : ConstructFrom(url_list, <<>>)
  \/ CallRunThroughUrls
  \/ UrlLoopStep
  \/ UrlLoopEnd
  \/ \E n \in 0..MaxRetries : CallRetry(n)
  \/ RetryCheck
  \/ CallRunThroughHtmls
  \/ HtmlLoopStep
  \/ HtmlLoopEnd

ListSpec == Init /\ [][ListNext]_vars

\* ------------------------------------------------------------------ claims
FileUrls(file) == IF file = None THEN {} ELSE BagToSet(find_urls(The(file)))
SuccessUrls == {c.source_content : c \in {d \in UrlItems : source_recipes[d].success}}
FailedUrls == {c.source_content : c \in {d \in UrlItems : ~source_recipes[d].success}}

\* a pass of run_through_urls has ended and nothing was called since
UrlPassEnded == hist.kind = "urls" /\ hist.outcome # "running"

\* C1: after _update_failed_urls_file the URLs in the file are (the URLs in the
\* file before the call, union the URLs of the unsuccessful URL items) minus
\* the URLs of the successful URL items; HTML items add nothing.
C1_FailedFileUnionMinusSuccess ==
  UrlPassEnded =>
    /\ failed_file # None
    /\ FileUrls(failed_file)
         = (FileUrls(The(hist.before)) \cup FailedUrls) \ SuccessUrls
    /\ FileUrls(failed_file) \cap Htmls = {}

\* C1 witness: an update kept an entry of an earlier batch, dropped an entry
\* whose URL succeeded, and added a failure that was not listed.
C1_Witness ==
  /\ UrlPassEnded
  /\ OldUrl \in FileUrls(The(hist.before)) \cap FileUrls(failed_file)
  /\ \E u \in SuccessUrls : u \in FileUrls(The(hist.before)) \ FileUrls(failed_file)
  /\ \E u \in FailedUrls : u \in FileUrls(failed_file) \ FileUrls(The(hist.before))
  /\ HtmlItems # {}

Suffixed(fname, k) == fname \o <<"_">> \o Str(k)

\* the folder named by the claims for folder name fname when path p was made
NamedAsClaimed(dirs, p, fname) ==
  \/ p = Append(target, fname)
  \/ \E k \in 2..(Cardinality(DOMAIN dirs) + 2) :
       /\ p = Append(target, Suffixed(fname, k))
       /\ JoinPath(target, fname) \in DOMAIN dirs
       /\ \A j \in 2..(k - 1) : Append(target, Suffixed(fname, j)) \in DOMAIN dirs

\* C2: _create_target_folder creates <target>/<folder_name> when that path
\* does not exist, and otherwise <target>/<folder_name>_k for the smallest
\* k >= 2 whose path does not exist.
C2_FolderIsNameOrFirstFreeSuffix ==
  last # None /\ The(last).created # None =>
    LET rc == source_recipes[The(last).item]
    IN NamedAsClaimed(fs, The(The(last).created), folder_name(The(rc.parsed_recipe)))

\* C3: no step writes into a folder that existed before the step: the files of
\* every folder that a step finds and leaves in place are unchanged, so each
\* recipe.json and full.jpg goes into a folder made for that item's attempt.
C3_NoWriteIntoExistingFolder ==
  [][\A d \in DOMAIN fs : d \in DOMAIN fs' => fs'[d] = fs[d]]_vars

\* C3 witness: an item saved its recipe under a new suffixed folder while the
\* folders of the earlier run and of an earlier item of the batch keep theirs.
C3_Witness ==
  /\ last # None
  /\ ~The(last).raised
  /\ The(last).created = Some(PriorFolder(3))
  /\ fs[PriorFolder(1)] = Saved("old")
  /\ fs[PriorFolder(3)] = Saved(The(last).item.source_content)
  /\ \E c \in Items \ {The(last).item} :
       /\ source_recipes[c].success
       /\ source_recipes[c].target_folder = Some(PriorFolder(2))
       /\ fs[PriorFolder(2)] = Saved(c.source_content)

\* C4: when web_to_cookbook raises for a URL item after it made the item's
\* folder, that folder is gone when the exception reaches the caller.
C4_FailedUrlFolderRemoved ==
  last # None /\ The(last).item.source = "url" /\ The(last).raised
    /\ The(last).created # None
  => ~exists(fs, The(The(last).created))

\* C4 witness: a URL item failed after its folder was made.
C4_Witness ==
  /\ last # None
  /\ The(last).item.source = "url"
  /\ The(last).raised
  /\ The(last).created # None
  /\ source_recipes[The(last).item].target_folder = The(last).created

\* C5: in one pass of run_through_urls every URL item that was unsuccessful at
\* its start is attempted exactly once, whatever happened to the others.
C5_EveryPendingUrlAttemptedOnce ==
  /\ hist.kind = "urls" => \A c \in Items : hist.tried[c] <= 1
  /\ UrlPassEnded => \A c \in hist.start : hist.tried[c] = 1

\* C5 witness: a pass over two pending URLs in which the first one visited
\* raised and the second one was attempted all the same (and raised too).
C5_Witness ==
  /\ UrlPassEnded
  /\ Cardinality(hist.start) = 2
  /\ Len(exceptions) = 2
  /\ exceptions[1] # exceptions[2]
  /\ \A c \in hist.start : hist.tried[c] = 1

\* C6: run_through_urls raises the aggregate exactly when some URL item failed
\* in the pass, the aggregate holds one exception per failed item, and it is
\* raised after every pending URL was attempted and the file was updated.
C6_AggregateIffFailure ==
  UrlPassEnded =>
    /\ (hist.outcome = "raised") <=> (hist.failed # {})
    /\ Len(hist.group) = Cardinality(hist.failed)
    /\ {hist.group[i] : i \in 1..Len(hist.group)} = hist.failed
    /\ hist.outcome = "raised" =>
         /\ \A c \in hist.start : hist.tried[c] = 1
         /\ hist.before # None
         /\ failed_file # None
         /\ FailedUrls \subseteq FileUrls(failed_file)

\* C6 witness: a pass in which two URLs failed raised a group of two.
C6_Witness ==
  /\ UrlPassEnded
  /\ hist.outcome = "raised"
  /\ Len(hist.group) = 2
  /\ Cardinality(hist.failed) = 2

\* C7: run_through_urls_with_retry(retries=n) makes at most n passes, makes no
\* further pass once a pass leaves no unsuccessful URL, makes exactly n passes
\* when a URL is still unsuccessful at the end, returns normally, and attempts
\* no URL more than n times.
C7_RetryBounded ==
  /\ in_retry =>
       /\ attempt <= retries
       /\ attempt > 1 /\ pc = "urls" => hist.start # {}
       /\ \A c \in UrlItems : tries[c] <= attempt
  /\ result.op = "retry" =>
       /\ ~result.raised
       /\ result.passes <= result.retries
       /\ FailedUrls # {} => result.passes = result.retries
       /\ \A c \in UrlItems : tries[c] <= result.retries

\* C7 witness: a call with retries = 2 made two passes and a URL still failed.
C7_Witness ==
  /\ result.op = "retry"
  /\ result.retries = 2
  /\ result.passes = 2
  /\ FailedUrls # {}
  /\ \E c \in UrlItems : tries[c] = 2

\* C8: every item marked successful has a target folder <target>/<folder_name>
\* (possibly with a _k suffix) that exists and holds recipe.json and full.jpg.
C8_SuccessHasFolderWithBothFiles ==
  \A c \in Items :
    source_recipes[c].success =>
      LET rc == source_recipes[c]
          fname == folder_name(The(rc.parsed_recipe))
      IN /\ rc.target_folder # None
         /\ \/ The(rc.target_folder) = Append(target, fname)
            \/ \E k \in 2..(Cardinality(DOMAIN fs) + MaxPasses + 2) :
                 The(rc.target_folder) = Append(target, Suffixed(fname, k))
         /\ exists(fs, The(rc.target_folder))
         /\ fs[The(rc.target_folder)].json # NoFile
         /\ fs[The(rc.target_folder)].jpg # NoFile

\* C9: when an HTML item fails in run_through_htmls after its folder was made,
\* the folder is removed.
C9_FailedHtmlFolderRemoved ==
  last # None /\ The(last).item.source = "html" /\ The(last).raised
    /\ The(last).created # None
  => ~exists(fs, The(The(last).created))

\* C10: after _update_failed_urls_file no URL is listed twice, also when a
\* listed URL failed again, and a second update with the same item states
\* leaves the file as the first one wrote it.
C10_NoDuplicateAndIdempotent ==
  UrlPassEnded =>
    /\ failed_file # None
    /\ \A w \in BagToSet(The(failed_file)) : The(failed_file)[w] = 1
    /\ update_failed_urls_file(failed_file, source_recipes) = The(failed_file)

\* C10 witness: a URL listed by the earlier run failed again and is listed once.
C10_Witness ==
  /\ UrlPassEnded
  /\ The(hist.before) # None
  /\ \E u \in FailedUrls :
       /\ u \in FileUrls(The(hist.before))
       /\ The(failed_file)[u] = 1
  /\ \E u \in FailedUrls : u \notin FileUrls(The(hist.before))

\* the values the claim calls empty
Falsy == {StrV(""), ListV(<<>>), DictV(<<>>), IntV(0)}

\* C11: to_json returns a mapping that has a field of the record as key exactly
\* when the field's value is not empty (not "", [], {} or 0), maps it to the
\* field's value, and always maps @context to https://schema.org and @type to
\* Recipe.
C11_ToJsonOmitsExactlyFalsy ==
  call.fn = "to_json" /\ call.out # None =>
    LET m == The(call.out)
    IN /\ \A f \in FieldNames :
            /\ f \in DOMAIN m <=> call.args[f] \notin Falsy
            /\ f \in DOMAIN m => m[f] = call.args[f]
       /\ DOMAIN m \subseteq FieldNames \cup {"@context", "@type"}
       /\ m["@context"] = StrV("https://schema.org")
       /\ m["@type"] = StrV("Recipe")

\* C11 witness: a recipe with a yield of 0 and an empty name, one list and one
\* mapping filled: the two filled fields are kept, yield and name are left out.
C11_Witness ==
  /\ call.fn = "to_json"
  /\ call.out # None
  /\ call.args["recipeYield"] = IntV(0)
  /\ call.args["name"] = StrV("")
  /\ DOMAIN The(call.out) = {"keywords", "nutrition", "@context", "@type"}

\* the host a URL names: the host part of its authority, if it has one
HostOf(p) == IF p.slashes /\ p.host # <<>> THEN Some(p.host) ELSE None

\* C12 as stated: get_proper_parser returns the mapped parser class exactly
\* when the URL's host, as the URL spells it, equals a key of
\* HOST_PARSER_MAPPING, and DefaultRecipeParser otherwise.
C12_ParserIffHostEqualsKey ==
  call.fn = "get_proper_parser" /\ call.out # None =>
    LET host == HostOf(call.args.parts)
    IN IF host # None /\ The(host) \in DOMAIN HOST_PARSER_MAPPING
       THEN The(call.out) = HOST_PARSER_MAPPING[The(host)]
       ELSE The(call.out) = "DefaultRecipeParser"

\* C12 amended: get_proper_parser returns the mapped parser class exactly when
\* the URL's host, lower-cased, equals a key of HOST_PARSER_MAPPING (userinfo
\* and port play no part), and DefaultRecipeParser for every other URL: a host
\* that contains a key or is a suffix of one, and a URL without host.
C12_ParserIffLowerHostEqualsKey ==
  call.fn = "get_proper_parser" /\ call.out # None =>
    LET host == HostOf(call.args.parts)
    IN IF host # None /\ lower(The(host)) \in DOMAIN HOST_PARSER_MAPPING
       THEN The(call.out) = HOST_PARSER_MAPPING[lower(The(host))]
       ELSE The(call.out) = "DefaultRecipeParser"

\* C12 witness: the mapped host written with capitals, with userinfo and port,
\* gets the Albert Heijn parser.
C12_Witness ==
  /\ call.fn = "get_proper_parser"
  /\ call.out = Some("AlbertHeijnRecipeParser")
  /\ call.args.parts.host # WwwAhNl
  /\ call.args.parts.userinfo # None
  /\ call.args.parts.port # None

\* C13: an orchestrator given raw-HTML items and no URL is constructed without
\* error, so that run_through_htmls can attempt its HTML items.
C13_HtmlOnlyIsConstructed ==
  HtmlItems # {} /\ UrlItems = {} => pc # "init_failed"

IsUpper(c) == \E k \in 1..26 : UpperCase[k] = c

\* the character the claim puts in the folder name for character c of the name
Folded(c) ==
  CASE c = " " -> "_"
    [] c = "/" -> "-"
    [] IsUpper(c) -> LowerCase[CHOOSE k \in 1..26 : UpperCase[k] = c]
    [] OTHER -> c

\* two names that differ only in letter case or in space versus underscore
SameButCaseAndSpace(n, m) ==
  /\ Len(n) = Len(m)
  /\ \A i \in 1..Len(n) :
       \/ lower(<<n[i]>>) = lower(<<m[i]>>)
       \/ {n[i], m[i]} = {" ", "_"}

\* C14: folder_name is the name lower-cased with every space replaced by an
\* underscore and every "/" by "-"; it holds no space, no "/" and no upper-case
\* letter; names that differ only in letter case or in space versus underscore
\* have the same folder_name.
C14_FolderNameNormalises ==
  call.fn = "folder_name" /\ call.out # None =>
    LET n == call.args.name
        f == The(call.out)
    IN /\ Len(f) = Len(n)
       /\ \A i \in 1..Len(n) : f[i] = Folded(n[i])
       /\ \A i \in 1..Len(f) : f[i] \notin {" ", "/"} /\ ~IsUpper(f[i])
       /\ \A m \in RecipeNames : SameButCaseAndSpace(n, m) => folder_name(m) = f

\* C14 witness: a name with a capital, a space and a slash.
C14_Witness ==
  /\ call.fn = "folder_name"
  /\ call.args.name = <<"A", " ", "/">>
  /\ call.out = Some(<<"a", "_", "-">>)

\* parse_recipe returned a recipe
Parsed == call.fn = "parse_recipe" /\ call.out # None /\ The(call.out) # None
ParsedRecipe == The(The(call.out))

\* C15: the parsed recipe's keywords are the scraper's keywords, then its
\* dietary restrictions, then its cuisine as the last element when the cuisine
\* is not empty; with an empty cuisine nothing is appended.
C15_KeywordsThenDietaryThenCuisine ==
  Parsed =>
    LET recipe == call.args.recipe
        kw == recipe.keywords
        dr == recipe.dietary_restrictions
        got == ParsedRecipe["keywords"].v
    IN /\ Len(got) = Len(kw) + Len(dr) + (IF recipe.cuisine = StrV("") THEN 0 ELSE 1)
       /\ \A i \in 1..Len(kw) : got[i] = kw[i]
       /\ \A i \in 1..Len(dr) : got[Len(kw) + i] = dr[i]
       /\ recipe.cuisine # StrV("") => got[Len(got)] = recipe.cuisine

\* C15 witness: two keywords, a dietary restriction and a cuisine give four
\* keywords ending in the cuisine.
C15_Witness ==
  /\ Parsed
  /\ Len(call.args.recipe.keywords) = 2
  /\ Len(call.args.recipe.dietary_restrictions) = 1
  /\ ParsedRecipe["keywords"].v
       = <<StrV("k1"), StrV("k2"), StrV("d1"), StrV("c")>>

\* the recipe handed to parse_recipe is one of www.ah.nl
IsAlbertHeijn ==
  call.fn = "parse_recipe"
    /\ hostname(call.args.recipe.url.v) = Some(WwwAhNl)

\* C16: for an Albert Heijn recipe whose yield text is "N servings", N >= 0,
\* the parsed recipe's recipeYield is the integer N.
C16_YieldIsN ==
  IsAlbertHeijn /\ call.out # None =>
    \A n \in 0..MaxYield :
      call.args.recipe.yields.v = Str(n) \o Servings =>
        /\ The(call.out) # None
        /\ ParsedRecipe["recipeYield"] = IntV(n)

\* C16 witness: "10 servings" gives 10: the 0 is not stripped with the text.
C16_Witness ==
  /\ IsAlbertHeijn
  /\ Parsed
  /\ call.args.recipe.yields.v = <<"1", "0">> \o Servings
  /\ ParsedRecipe["recipeYield"] = IntV(10)

\* C17: get_source_ip returns 127.0.0.1 when no interface is given, raises
\* ValueError when the interface is not among the system's interfaces or has
\* no IPv4 address, and otherwise returns the interface's first IPv4 address.
C17_SourceIp ==
  call.fn = "get_source_ip" /\ call.out # None =>
    LET i == call.args.interface
        sys == call.args.system
        out == The(call.out)
    IN /\ i = "" => out = Return("127.0.0.1")
       /\ i # "" /\ i \notin DOMAIN sys => out = Raise("ValueError")
       /\ i # "" /\ i \in DOMAIN sys /\ "AF_INET" \notin DOMAIN sys[i] =>
            out = Raise("ValueError")
       /\ i # "" /\ i \in DOMAIN sys /\ "AF_INET" \in DOMAIN sys[i] =>
            out = Return(sys[i]["AF_INET"][1].addr)

\* C17 witness: an interface with two IPv4 addresses gives the first one.
C17_Witness ==
  /\ call.fn = "get_source_ip"
  /\ call.args.interface = "eth0"
  /\ "eth0" \in DOMAIN call.args.system
  /\ "AF_INET" \in DOMAIN call.args.system["eth0"]
  /\ call.args.system["eth0"]["AF_INET"]
       = <<[addr |-> "10.0.0.2"], [addr |-> "10.0.0.1"]>>
  /\ call.out = Some(Return("10.0.0.2"))

\* C18: the failure handling of a URL item removes no folder but the one made
\* for that item in that attempt.  A step makes and removes such a folder
\* within itself, so every folder found by a step is still there after it: the
\* saved recipes of other items and the folders of earlier runs are never
\* deleted.
C18_NoOtherFolderRemoved ==
  [][\A d \in DOMAIN fs : d \in DOMAIN fs']_vars

\* C19: web_to_cookbook sets a URL item's success flag only when fetch, scrape,
\* parse, folder creation, the write of recipe.json and the image have all
\* completed in this attempt: the item then has the recipe parsed and the
\* folder made in this attempt, holding both files written from this item.  If
\* a step raises, the flag stays False and the exception reaches the caller,
\* which records it.
C19_SuccessOnlyAfterAllSteps ==
  last # None /\ The(last).item.source = "url" =>
    LET c == The(last).item
        rc == source_recipes[c]
    IN /\ rc.success <=> ~The(last).raised
       /\ rc.success =>
            /\ rc.parsed_recipe # None
            /\ The(last).created # None
            /\ rc.target_folder = The(last).created
            /\ exists(fs, The(rc.target_folder))
            /\ fs[The(rc.target_folder)] = Saved(c.source_content)
       /\ The(last).raised =>
            /\ exceptions # <<>>
            /\ exceptions[Len(exceptions)] = c

\* C19 witness: a URL that raised in the first pass succeeds in the second,
\* after the other URL raised in this same pass.
C19_Witness ==
  /\ last # None
  /\ The(last).item.source = "url"
  /\ source_recipes[The(last).item].success
  /\ in_retry
  /\ attempt = 2
  /\ tries[The(last).item] = 2
  /\ Len(exceptions) = 1
  /\ ~source_recipes[exceptions[1]].success

\* C20: an item marked successful stays as it is: no step marks it
\* unsuccessful, no step of a later pass is taken on it (no fetch, no folder,
\* no file for it), and its container is not changed.
C20_SuccessIsFinal ==
  [][\A c \in Items :
       source_recipes[c].success =>
         /\ c \in DOMAIN source_recipes'
         /\ source_recipes'[c] = source_recipes[c]
         /\ last' # None => The(last').item # c]_vars

\* C20 witness: in the second pass of a retry the URL that succeeded in the
\* first pass was left alone while the other URL was attempted again.
C20_Witness ==
  /\ UrlPassEnded
  /\ in_retry
  /\ attempt = 2
  /\ \E c \in UrlItems :
       /\ source_recipes[c].success
       /\ c \notin hist.start
       /\ tries[c] = 1
  /\ \E c \in UrlItems : c \in hist.start /\ tries[c] = 2

\* run_through_urls_with_retry(retries >= 1) has returned
RetryReturned == result.op = "retry" /\ result.retries >= 1

\* C21: after run_through_urls_with_retry(retries >= 1) returns, every URL of
\* the batch is either marked successful and not listed in failed_urls.txt, or
\* not successful and listed in it.
C21_ListedIffNotSuccessful ==
  RetryReturned =>
    /\ failed_file # None
    /\ \A c \in UrlItems :
         source_recipes[c].success <=> c.source_content \notin FileUrls(failed_file)

\* C21 witness: a URL that failed in the first pass, and was listed by it,
\* succeeded in the second pass and is not listed at the return, while the
\* other URL failed twice and is listed.
C21_Witness ==
  /\ RetryReturned
  /\ result.passes = 2
  /\ \E c \in UrlItems :
       /\ source_recipes[c].success
       /\ tries[c] = 2
       /\ c.source_content \in FileUrls(The(hist.before))
       /\ c.source_content \notin FileUrls(failed_file)
  /\ \E c \in UrlItems :
       /\ ~source_recipes[c].success
       /\ tries[c] = 2
       /\ c.source_content \in FileUrls(failed_file)

\* the URLs of the list the constructor was given
Given == {call.args.url_list[i] : i \in 1..Len(call.args.url_list)}
Occurrences(u) ==
  Cardinality({i \in 1..Len(call.args.url_list) : call.args.url_list[i] = u})

\* the folders that hold a file written from URL u
FoldersOf(u) == {d \in DOMAIN fs : fs[d].json = u \/ fs[d].jpg = u}

ChildOf(p, q) == Len(p) = Len(q) + 1 /\ SubSeq(p, 1, Len(q)) = q

\* C23: every folder that _create_target_folder creates is a direct child of
\* the orchestrator's target folder, whatever the recipe's name.
C23_CreatedIsChildOfTarget ==
  last # None /\ The(last).created # None =>
    ChildOf(The(The(last).created), target)

\* a step of run_through_urls or run_through_urls_with_retry, its call included
UrlOpStep == pc \in {"urls", "retry"} \/ pc' \in {"urls", "retry"}

\* a step of run_through_htmls, its call included
HtmlOpStep == pc = "htmls" \/ pc' = "htmls"

\* the step leaves item c alone: it is not taken on c and c's container, with
\* its success flag and its target folder, stays as it is
LeftAlone(c) ==
  /\ source_recipes'[c] = source_recipes[c]
  /\ last' # None => The(last').item # c

\* C24: run_through_urls and run_through_urls_with_retry leave every HTML item
\* unchanged and unattempted; run_through_htmls leaves every URL item and the
\* failed-URL file unchanged.
C24_PassesKeepToTheirSource ==
  [][/\ UrlOpStep => \A c \in HtmlItems : LeftAlone(c)
     /\ HtmlOpStep => /\ \A c \in UrlItems : LeftAlone(c)
                      /\ failed_file' = failed_file]_vars

\* C24 witness: a URL pass that attempted its URLs has ended; the HTML item,
\* saved by the HTML pass before it, was not attempted and is as it was.
C24_Witness ==
  /\ UrlPassEnded
  /\ hist.start # {}
  /\ \A c \in hist.start : hist.tried[c] = 1
  /\ \E h \in HtmlItems :
       /\ source_recipes[h].success
       /\ source_recipes[h].target_folder # None
       /\ hist.tried[h] = 0
       /\ tries[h] = 0

====
